---------------------------- MODULE Spec2Model ----------------------------
(***************************************************************************)
(* Model of the Pat voice proxy (src/unnamed/part_000): a hand-rolled      *)
(* WebSocket frame codec (sendWsFrame, parseWsFrames) and the relay bridge *)
(* installed by server.on("upgrade") between one client socket and one     *)
(* upstream WebSocket; and of the GitHub OAuth routes                      *)
(* (src/unnamed/part_002) with the state cookie they store and check.      *)
(*                                                                         *)
(* Buffers are sequences of bytes (0..255); buffer offset i of the source  *)
(* is element i+1 here.  JavaScript strings are sequences of code points.  *)
(***************************************************************************)
EXTENDS Integers, Sequences, FiniteSets, TLC

VARIABLES
    \* ---- relay session (server.on("upgrade") closure) ----
    env,          \* process.env as read by the upgrade handler, and the outcome
                  \* of new WebSocket(...)
    phase,        \* position of the session: "idle", "rejected", "configMissing",
                  \* "connectFailed", "bridged" (handlers installed)
    httpOut,      \* raw HTTP writes made by the upgrade handler
    sock,         \* client socket: "open", "ended", "errored", "destroyed", "closed"
    up,           \* upstream.readyState: "none", "CONNECTING", "OPEN", "CLOSING", "CLOSED"
    buf,          \* let buf (line 210)
    wire,         \* the bytes the client sends that no "data" event has delivered yet
    clientOut,    \* frames written to the client socket, in order
    upSent,       \* messages handed to upstream.send, in order
    blobs,        \* deferred upstream payloads being materialized
    hist,         \* history (ghost) record of the session
    \* ---- codec harness ----
    cPc, cOpcode, cPayload, cWire, cParsed,
    \* ---- decode harness: one receive buffer fed by "data" events ----
    dPc,          \* "off" or "run"
    dWire,        \* bytes of the stream not yet delivered
    dBuf,         \* let buf (line 210)
    dDelivered,   \* bytes delivered so far
    dFrames,      \* frames handed to the loop of line 238 so far
    dThrew,       \* number of data events whose parseWsFrames call threw
    dChunks,      \* number of data events so far
    \* ---- two sessions served by one process ----
    pair,         \* session id -> the session's closure: transports, position
    pairBuf,      \* buffer id -> the bytes of that `let buf` (line 210)
    \* ---- the options of new WebSocket(...) ----
    hPc,          \* "off", "input" or "built"
    hKey,         \* process.env.XAI_API_KEY
    hExtra,       \* process.env.XAI_REALTIME_HEADERS_JSON
    hOptions,     \* the headers object passed to new WebSocket
    \* ---- GitHub OAuth routes (src/unnamed/part_002) and one browser ----
    oPc,          \* "off" or "run"
    oEnv,         \* process.env: GITHUB_CLIENT_ID, GITHUB_CLIENT_SECRET, PAT_SESSION_SECRET
    oJar,         \* the browser's cookies: pat_github_oauth_state and pat_github_token
    oIssued,      \* state values issued by the authorize route so far
    oCalls,       \* callback requests handled so far
    oExch,        \* the token-exchange requests made, in order
    oLast         \* the last request handled and the response to it

sessVars == <<env, phase, httpOut, sock, up, buf, wire, clientOut, upSent, blobs, hist>>
codecVars == <<cPc, cOpcode, cPayload, cWire, cParsed>>
decodeVars == <<dPc, dWire, dBuf, dDelivered, dFrames, dThrew, dChunks>>
pairVars == <<pair, pairBuf>>
headerVars == <<hPc, hKey, hExtra, hOptions>>
oauthVars == <<oPc, oEnv, oJar, oIssued, oCalls, oExch, oLast>>
vars == <<env, phase, httpOut, sock, up, buf, wire, clientOut, upSent, blobs, hist,
          cPc, cOpcode, cPayload, cWire, cParsed,
          dPc, dWire, dBuf, dDelivered, dFrames, dThrew, dChunks,
          pair, pairBuf, hPc, hKey, hExtra, hOptions,
          oPc, oEnv, oJar, oIssued, oCalls, oExch, oLast>>

(***************************************************************************)
(* Byte arithmetic                                                         *)
(***************************************************************************)
RECURSIVE BitOp(_, _, _, _)
\* bitwise combination of the low n bits of a and b; op is "and", "or", "xor"
BitOp(op, a, b, n) ==
    IF n = 0 THEN 0
    ELSE LET x == a % 2
             y == b % 2
             bit == CASE op = "and" -> IF x = 1 /\ y = 1 THEN 1 ELSE 0
                      [] op = "or"  -> IF x = 1 \/ y = 1 THEN 1 ELSE 0
                      [] OTHER      -> IF x # y THEN 1 ELSE 0
         IN  bit + 2 * BitOp(op, a \div 2, b \div 2, n - 1)

BitAnd(a, b) == BitOp("and", a, b, 8)
BitOr(a, b) == BitOp("or", a, b, 8)
BitXor(a, b) == BitOp("xor", a, b, 8)

\* buffer[i] with the source's 0-based offset
At(buffer, i) == buffer[i + 1]
\* buffer.subarray(from, to)
Subarray(buffer, from, to) == SubSeq(buffer, from + 1, to)

\* header.writeUInt16BE(length, 2): the two bytes written
writeUInt16BE(n) == <<(n \div 256) % 256, n % 256>>

\* header.writeBigUInt64BE(BigInt(length), 2): the eight bytes written.
\* A Buffer's length is below 2^31, so the upper four bytes are 0.
writeBigUInt64BE(n) ==
    <<0, 0, 0, 0, (n \div 16777216) % 256, (n \div 65536) % 256, (n \div 256) % 256, n % 256>>

\* buffer.readUInt16BE(offset)
readUInt16BE(buffer, offset) == At(buffer, offset) * 256 + At(buffer, offset + 1)

\* Any length >= 2^24 exceeds every buffer of the model; such values are
\* represented by this one number (the model's integers are 32 bits wide).
HugeLength == 16777216

\* Number(buffer.readBigUInt64BE(offset)).  No range check is made by the
\* source: values beyond the safe-integer range are only rounded.  Every value
\* >= 2^24 is returned as HugeLength, which keeps each comparison the source
\* makes with buffer.length.
readBigUInt64BE(buffer, offset) ==
    IF \E k \in 0..4 : At(buffer, offset + k) # 0
    THEN HugeLength
    ELSE At(buffer, offset + 5) * 65536 + At(buffer, offset + 6) * 256 + At(buffer, offset + 7)

(***************************************************************************)
(* Strings: Buffer.from(str, "utf8") and buf.toString("utf8")              *)
(***************************************************************************)
ReplacementChar == 65533

utf8EncodeCp(c) ==
    IF c < 128 THEN <<c>>
    ELSE IF c < 2048 THEN <<192 + (c \div 64), 128 + (c % 64)>>
    ELSE <<224 + (c \div 4096), 128 + ((c \div 64) % 64), 128 + (c % 64)>>

RECURSIVE utf8Encode(_)
\* Buffer.from(str, "utf8")
utf8Encode(str) ==
    IF str = <<>> THEN <<>> ELSE utf8EncodeCp(Head(str)) \o utf8Encode(Tail(str))

RECURSIVE utf8Decode(_)
\* payload.toString("utf8"): ASCII bytes and well-formed two-byte sequences
\* decode to their code point; any other byte decodes to U+FFFD.  (Exact for
\* ASCII, two-byte sequences, lone continuation bytes and the bytes C0, C1,
\* F5..FF, which is the byte alphabet of the model.)
utf8Decode(bytes) ==
    IF bytes = <<>> THEN <<>>
    ELSE LET b0 == Head(bytes)
         IN  IF b0 < 128 THEN <<b0>> \o utf8Decode(Tail(bytes))
             ELSE IF b0 >= 194 /\ b0 <= 223 /\ Len(bytes) >= 2
                     /\ bytes[2] >= 128 /\ bytes[2] <= 191
                  THEN <<(b0 - 192) * 64 + (bytes[2] - 128)>>
                       \o utf8Decode(Tail(Tail(bytes)))
                  ELSE <<ReplacementChar>> \o utf8Decode(Tail(bytes))

(***************************************************************************)
(* sendWsFrame: the bytes handed to socket.write                           *)
(***************************************************************************)
\* seeded fault: the 2-byte header is also chosen for a payload of 126 bytes
wsFrameHeader_le126(opcode, length) ==
    IF length <= 126 THEN <<BitOr(128, opcode), length>>
    ELSE IF length < 65536 THEN <<BitOr(128, opcode), 126>> \o writeUInt16BE(length)
    ELSE <<BitOr(128, opcode), 127>> \o writeBigUInt64BE(length)

\* seeded fault: the 16-bit length is written low byte first
wsFrameHeader_le16(opcode, length) ==
    IF length < 126 THEN <<BitOr(128, opcode), length>>
    ELSE IF length < 65536 THEN <<BitOr(128, opcode), 126, length % 256, (length \div 256) % 256>>
    ELSE <<BitOr(128, opcode), 127>> \o writeBigUInt64BE(length)

\* lines 42-59: the header for a payload of `length` bytes
wsFrameHeader(opcode, length) ==
    IF length < 126 THEN <<BitOr(128, opcode), length>>
    ELSE IF length < 65536 THEN <<BitOr(128, opcode), 126>> \o writeUInt16BE(length)
    ELSE <<BitOr(128, opcode), 127>> \o writeBigUInt64BE(length)

\* lines 33-61 for a Buffer payload: Buffer.concat([header, data])
wsFrameBytes(opcode, data) == wsFrameHeader(opcode, Len(data)) \o data

(***************************************************************************)
(* parseWsFrames                                                           *)
(***************************************************************************)
\* seeded fault: the key index is off by one
unmask_shifted(payload, maskKey) ==
    [i \in 1..Len(payload) |-> BitXor(payload[i], maskKey[(i % 4) + 1])]

\* lines 111-118: payload[i] ^ maskKey[i % 4]
unmask(payload, maskKey) ==
    [i \in 1..Len(payload) |-> BitXor(payload[i], maskKey[((i - 1) % 4) + 1])]

RECURSIVE parseLoop(_, _, _)
\* the while loop of lines 80-122 from `offset` on, `frames` decoded so far.
\* Result: [threw, frames, remaining]; threw = TRUE is the throw of line 91.
parseLoop(buffer, offset, frames) ==
    IF ~(offset + 2 <= Len(buffer))
    THEN [threw |-> FALSE, frames |-> frames, remaining |-> Subarray(buffer, offset, Len(buffer))]
    ELSE
    LET b0 == At(buffer, offset)
        b1 == At(buffer, offset + 1)
        fin == BitAnd(b0, 128) # 0
        opcode == BitAnd(b0, 15)
        masked == BitAnd(b1, 128) # 0
        len7 == BitAnd(b1, 127)
        stop == [threw |-> FALSE, frames |-> frames,
                 remaining |-> Subarray(buffer, offset, Len(buffer))]
    IN
    IF ~fin THEN [threw |-> TRUE, frames |-> <<>>, remaining |-> <<>>]
    ELSE IF len7 = 126 /\ offset + 4 > Len(buffer) THEN stop
    ELSE IF len7 = 127 /\ offset + 10 > Len(buffer) THEN stop
    ELSE
    LET length == IF len7 = 126 THEN readUInt16BE(buffer, offset + 2)
                  ELSE IF len7 = 127 THEN readBigUInt64BE(buffer, offset + 2)
                  ELSE len7
        headerLen == IF len7 = 126 THEN 4 ELSE IF len7 = 127 THEN 10 ELSE 2
        maskLen == IF masked THEN 4 ELSE 0
        frameStart == offset + headerLen + maskLen
        frameEnd == frameStart + length
    IN
    IF frameEnd > Len(buffer) THEN stop
    ELSE
    LET raw == Subarray(buffer, frameStart, frameEnd)
        payload == IF masked
                   THEN unmask(raw, Subarray(buffer, offset + headerLen, offset + headerLen + 4))
                   ELSE raw
    IN  parseLoop(buffer, frameEnd, Append(frames, [opcode |-> opcode, payload |-> payload]))

\* lines 76-125
parseWsFrames(buffer) == parseLoop(buffer, 0, <<>>)

(***************************************************************************)
(* Transports.  A handler's effect is computed on a record                 *)
(*   s = [sock, up, clientOut, upSent, hist]                               *)
(* so that the calls a handler makes one after the other compose.          *)
(***************************************************************************)
HistInit ==
    [ req          |-> [path |-> "", key |-> "", version |-> ""],
                               \* the upgrade request handled (path and headers)
      sent         |-> 0,      \* frames in the stream the client sends
      closeFrame   |-> FALSE,  \* the data handler has acted on a close frame
      dropped      |-> 0,      \* text and binary frames skipped while CONNECTING
      unsent       |-> 0,      \* text and binary frames skipped while CLOSING or CLOSED
      badSends     |-> 0,      \* upstream.send calls made while the upstream was not OPEN
      discarded    |-> 0,      \* frames discarded by lines 250-251
      rejected     |-> 0,      \* arrayBuffer() promises that were rejected
      threw        |-> 0,      \* data events whose parseWsFrames call threw
      ends         |-> 0,      \* socket.end() calls that ended the writable side
      upCloses     |-> 0,      \* upstream.close() calls that started a closing
      upCreated    |-> 0,      \* upstream connections constructed
      upMsgs       |-> 0,      \* upstream message events so far
      upIn         |-> <<>>,   \* event.data of those events, in arrival order
      upError      |-> FALSE,  \* an upstream error event has been dispatched
      uncaught     |-> 0 ]     \* exceptions that left a handler

\* who wrote a frame: the handler, and for a relayed upstream message its
\* arrival number
By(h) == [h |-> h, n |-> 0]
Relay(n) == [h |-> "relay", n |-> n]

\* seeded fault: a socket whose writable side was ended still takes the bytes
sockWrite_afterEnd(s, by, bytes) ==
    IF s.sock \in {"open", "ended"}
    THEN [s EXCEPT !.clientOut = Append(@, [by |-> by, bytes |-> bytes])]
    ELSE s

\* seeded fault: an ended socket still takes the frames relayed from upstream
sockWrite_relayed(s, by, bytes) ==
    IF s.sock = "open" \/ (s.sock = "ended" /\ by.h = "relay")
    THEN [s EXCEPT !.clientOut = Append(@, [by |-> by, bytes |-> bytes])]
    ELSE IF s.sock = "ended" THEN [s EXCEPT !.sock = "errored"]
    ELSE s

\* socket.write(bytes) by handler `by`.  An open socket takes the bytes.  After
\* socket.end() the bytes are not written: the stream fails with
\* ERR_STREAM_WRITE_AFTER_END and is destroyed, its "error" event pending.
\* A destroyed socket ignores the write.  write never throws.
sockWrite(s, by, bytes) ==
    IF s.sock = "open"
    THEN [s EXCEPT !.clientOut = Append(@, [by |-> by, bytes |-> bytes])]
    ELSE IF s.sock = "ended" THEN [s EXCEPT !.sock = "errored"]
    ELSE s

\* socket.end(): ends the writable side of an open socket, otherwise no effect
\* (and no exception).
sockEnd(s) ==
    [s EXCEPT !.sock = IF @ = "open" THEN "ended" ELSE @,
              !.hist.ends = IF s.sock = "open" THEN @ + 1 ELSE @]

\* upstream.close(): starts the closing of a CONNECTING or OPEN WebSocket;
\* no effect (and no exception) when it is CLOSING or CLOSED.
upClose(s) ==
    [s EXCEPT !.up = IF @ \in {"CONNECTING", "OPEN"} THEN "CLOSING" ELSE @,
              !.hist.upCloses = IF s.up \in {"CONNECTING", "OPEN"} THEN @ + 1 ELSE @]

\* upstream.send(msg): queued when OPEN, throws InvalidStateError when
\* CONNECTING, silently discarded when CLOSING or CLOSED.
upSend(s, msg) ==
    IF s.up = "OPEN" THEN [s EXCEPT !.upSent = Append(@, msg)]
    ELSE IF s.up = "CONNECTING"
         THEN [s EXCEPT !.hist.uncaught = @ + 1, !.hist.badSends = @ + 1]
    ELSE [s EXCEPT !.hist.badSends = @ + 1]

(***************************************************************************)
(* sendWsFrame / sendJson / sendPong on a socket                           *)
(***************************************************************************)
\* JSON.stringify({type: "proxy.ready"})
ProxyReadyJson ==
    <<123, 34, 116, 121, 112, 101, 34, 58, 34, 112, 114, 111, 120, 121, 46, 114, 101, 97,
      100, 121, 34, 125>>

\* {"type":"error","error":"
JsonErrorPrefix ==
    <<123, 34, 116, 121, 112, 101, 34, 58, 34, 101, 114, 114, 111, 114, 34, 44, 34, 101,
      114, 114, 111, 114, 34, 58, 34>>

\* JSON.stringify({type: "error", error: msg}) for a message that needs no escaping
errorJson(msg) == JsonErrorPrefix \o msg \o <<34, 125>>

\* "Missing XAI_API_KEY in pat/.env.local"
MsgMissingKey ==
    <<77, 105, 115, 115, 105, 110, 103, 32, 88, 65, 73, 95, 65, 80, 73, 95, 75, 69, 89, 32,
      105, 110, 32, 112, 97, 116, 47, 46, 101, 110, 118, 46, 108, 111, 99, 97, 108>>

\* "Missing XAI_REALTIME_WS_URL in pat/.env.local"
MsgMissingUrl ==
    <<77, 105, 115, 115, 105, 110, 103, 32, 88, 65, 73, 95, 82, 69, 65, 76, 84, 73, 77, 69,
      95, 87, 83, 95, 85, 82, 76, 32, 105, 110, 32, 112, 97, 116, 47, 46, 101, 110, 118, 46,
      108, 111, 99, 97, 108>>

\* "Failed to connect upstream: "
MsgFailedConnect ==
    <<70, 97, 105, 108, 101, 100, 32, 116, 111, 32, 99, 111, 110, 110, 101, 99, 116, 32,
      117, 112, 115, 116, 114, 101, 97, 109, 58, 32>>

\* "unknown error"
MsgUnknownError ==
    <<117, 110, 107, 110, 111, 119, 110, 32, 101, 114, 114, 111, 114>>

\* the message of the Error thrown by new WebSocket: "bad"
MsgConstruct == <<98, 97, 100>>

\* "Fragmented frames not supported."
MsgFragmented ==
    <<70, 114, 97, 103, 109, 101, 110, 116, 101, 100, 32, 102, 114, 97, 109, 101, 115, 32,
      110, 111, 116, 32, 115, 117, 112, 112, 111, 114, 116, 101, 100, 46>>

\* "Upstream websocket error."
MsgUpstreamError ==
    <<85, 112, 115, 116, 114, 101, 97, 109, 32, 119, 101, 98, 115, 111, 99, 107, 101, 116,
      32, 101, 114, 114, 111, 114, 46>>

\* sendWsFrame(socket, payload, opts) for a Buffer payload
sendWsFrame(s, by, opcode, data) == sockWrite(s, by, wsFrameBytes(opcode, data))

\* sendWsFrame(socket, str, {binary: false}) for a string payload
sendWsText(s, by, str) == sendWsFrame(s, by, 1, utf8Encode(str))

\* sendJson(socket, obj), json = JSON.stringify(obj); the catch has nothing to catch
sendJson(s, by, json) == sendWsText(s, by, json)

\* sendPong(socket, payload)
sendPong(s, payload) == sendWsFrame(s, By("pong"), 10, payload)

\* seeded fault: closeBoth that leaves the client socket open
closeBoth_noEnd(s) == upClose(s)

\* seeded fault: closeBoth that leaves the upstream open
closeBoth_noUpClose(s) == sockEnd(s)

\* seeded fault: closeBoth that acts only while the upstream is OPEN
closeBoth_onlyOpen(s) == IF s.up = "OPEN" THEN sockEnd(upClose(s)) ELSE s

\* lines 212-223
closeBoth(s) == sockEnd(upClose(s))

(***************************************************************************)
(* Bounds and inputs of the relay model                                    *)
(***************************************************************************)
\* frames the client sends in one session
MaxClientFrames == 2
\* upstream message events in one session
MaxUpMsgs == 2
\* client frames and upstream message events of one session, together
MaxInputs == 3

\* a frame as a client writes it: FIN bit, opcode, length format (7, 16 or 64
\* bit), mask key (<<>> for an unmasked frame) and payload
clientFrame(fin, opcode, fmt, key, payload) ==
    LET n == Len(payload)
        lenBytes == IF fmt = 7 THEN <<n>>
                    ELSE IF fmt = 16 THEN <<126>> \o writeUInt16BE(n)
                    ELSE <<127>> \o writeBigUInt64BE(n)
        b0 == (IF fin THEN 128 ELSE 0) + opcode
        b1 == (IF key = <<>> THEN 0 ELSE 128) + Head(lenBytes)
    IN  <<b0, b1>> \o Tail(lenBytes) \o key
        \o (IF key = <<>> THEN payload ELSE unmask(payload, key))

MaskKey == <<1, 2, 3, 4>>

FrameText == clientFrame(TRUE, 1, 7, <<>>, <<104>>)
FrameTextMasked == clientFrame(TRUE, 1, 7, MaskKey, <<104>>)
FrameBinary == clientFrame(TRUE, 2, 7, <<>>, <<255>>)
FramePing == clientFrame(TRUE, 9, 7, <<>>, <<7>>)
FrameClose == clientFrame(TRUE, 8, 7, <<>>, <<>>)
FramePong == clientFrame(TRUE, 10, 7, <<>>, <<>>)
FrameContinuation == clientFrame(TRUE, 0, 7, <<>>, <<>>)
FrameFragment == clientFrame(FALSE, 1, 7, <<>>, <<>>)
FrameBinary16 == clientFrame(TRUE, 2, 16, <<>>, <<255>>)
FrameText64 == clientFrame(TRUE, 1, 64, <<>>, <<105>>)
\* a text frame whose payload is not well-formed UTF-8
FrameTextIllFormed == clientFrame(TRUE, 1, 7, <<>>, <<255>>)
\* a FIN=1 frame with the reserved opcode 0xB
FrameReserved == clientFrame(TRUE, 11, 7, <<>>, <<9>>)
\* the masked text frame "hi" with key 01 02 03 04
FrameHiMasked == <<129, 130, 1, 2, 3, 4, 105, 107>>

\* the frames the client of the relay model chooses from
ClientFrames ==
    {FrameText, FrameBinary, FramePing, FrameClose, FramePong, FrameFragment,
     FrameTextIllFormed}

\* a second repertoire: frames with an opcode the bridge has no use for, and
\* a text frame to follow them
OpcodeFrames == {FrameContinuation, FrameReserved, FrameText}

\* event.data of an upstream message: a string, an ArrayBuffer, or a Blob
\* whose arrayBuffer() resolves later
UpMessages ==
    { [kind |-> "string", data |-> <<104, 105>>],
      [kind |-> "arraybuffer", data |-> <<1>>],
      [kind |-> "blob", data |-> <<2>>] }

\* seeded fault: no trimming
trim_none(str) == str

RECURSIVE trimStart(_)
trimStart(str) == IF str # <<>> /\ Head(str) = 32 THEN trimStart(Tail(str)) ELSE str

RECURSIVE trimEnd(_)
trimEnd(str) ==
    IF str # <<>> /\ str[Len(str)] = 32 THEN trimEnd(SubSeq(str, 1, Len(str) - 1)) ELSE str

\* str.trim() on the strings of the model (32 is the space)
trim(str) == trimEnd(trimStart(str))

RECURSIVE StreamsOf(_, _)
\* the byte streams made of exactly n frames of the set `frames`
StreamsOf(frames, n) ==
    IF n = 0 THEN {<<>>}
    ELSE {st \o f : st \in StreamsOf(frames, n - 1), f \in frames}

\* the byte streams made of at most n frames of the set `frames`
Streams(frames, n) == UNION {StreamsOf(frames, k) : k \in 0..n}

Envs ==
    [ xaiKey : {<<>>, <<32>>, <<107>>},
      upstreamUrl : {<<>>, <<32>>, <<117>>},
      construct : {"ok", "throwsError", "throwsOther"} ]

Cur == [sock |-> sock, up |-> up, clientOut |-> clientOut, upSent |-> upSent, hist |-> hist]

Commit(s) ==
    /\ sock' = s.sock
    /\ up' = s.up
    /\ clientOut' = s.clientOut
    /\ upSent' = s.upSent
    /\ hist' = s.hist

CodecOff ==
    /\ cPc = "off"
    /\ cOpcode = 0
    /\ cPayload = <<>>
    /\ cWire = <<>>
    /\ cParsed = [threw |-> FALSE, frames |-> <<>>, remaining |-> <<>>]

DecodeOff ==
    /\ dPc = "off"
    /\ dWire = <<>>
    /\ dBuf = <<>>
    /\ dDelivered = <<>>
    /\ dFrames = <<>>
    /\ dThrew = 0
    /\ dChunks = 0

PairOff ==
    /\ pair = <<>>
    /\ pairBuf = <<>>

HeaderOff ==
    /\ hPc = "off"
    /\ hKey = ""
    /\ hExtra = [kind |-> "unset"]
    /\ hOptions = <<>>

\* a cookie or query parameter that is not there
Absent == [present |-> FALSE, value |-> <<>>]
\* a cookie or query parameter with a string value
Str(v) == [present |-> TRUE, value |-> v]

OAuthOff ==
    /\ oPc = "off"
    /\ oEnv = [clientId |-> Absent, clientSecret |-> Absent, sessionSecret |-> Absent]
    /\ oJar = [state |-> Absent, token |-> Absent]
    /\ oIssued = 0
    /\ oCalls = 0
    /\ oExch = <<>>
    /\ oLast = [route |-> "none"]

Init ==
    /\ PairOff
    /\ HeaderOff
    /\ OAuthOff
    /\ env \in Envs
    /\ phase = "idle"
    /\ httpOut = <<>>
    /\ sock = "open"
    /\ up = "none"
    /\ buf = <<>>
    /\ wire = <<>>
    /\ clientOut = <<>>
    /\ upSent = <<>>
    /\ blobs = {}
    /\ hist = HistInit
    /\ CodecOff
    /\ DecodeOff

(***************************************************************************)
(* server.on("upgrade"), lines 137-297                                     *)
(***************************************************************************)
\* lines 174-184: the configuration-missing path
configMissing(s) ==
    LET msg == IF trim(env.xaiKey) = <<>> THEN MsgMissingKey ELSE MsgMissingUrl
        s1 == sendJson(s, By("config"), errorJson(msg))
        s2 == sendWsFrame(s1, By("config"), 1, <<>>)
    IN  sockEnd(s2)

\* seeded fault: the catch reports the failure and leaves the socket open
connectFailed_noEnd(s) ==
    sendJson(s, By("connect"),
             errorJson(MsgFailedConnect
                       \o (IF env.construct = "throwsError" THEN MsgConstruct
                           ELSE MsgUnknownError)))

\* lines 201-207: new WebSocket(...) threw
connectFailed(s) ==
    LET msg == MsgFailedConnect
               \o (IF env.construct = "throwsError" THEN MsgConstruct ELSE MsgUnknownError)
        s1 == sendJson(s, By("connect"), errorJson(msg))
    IN  sockEnd(s1)

\* the request paths and headers an upgrade request is drawn from
Paths == {"/voice", "/other"}
Keys == {"string", "undefined"}
Versions == {"13", "8", "undefined"}

\* seeded fault: the headers are examined before the path
upgradeReply_headersFirst(path, key, version) ==
    IF key # "string" \/ version # "13" THEN "400"
    ELSE IF path # "/voice" THEN "destroy"
    ELSE "101"

\* seeded fault: the version header is not examined
upgradeReply_anyVersion(path, key, version) ==
    IF path # "/voice" THEN "destroy"
    ELSE IF key # "string" THEN "400"
    ELSE "101"

\* lines 138-165: which of the three replies the handler gives
upgradeReply(path, key, version) ==
    IF path # "/voice" THEN "destroy"
    ELSE IF key # "string" \/ version # "13" THEN "400"
    ELSE "101"

Upgrade ==
    /\ phase = "idle"
    /\ \E path \in Paths, key \in Keys, version \in Versions :
          LET reply == upgradeReply(path, key, version)
              req == [path |-> path, key |-> key, version |-> version]
          IN
          IF reply = "destroy"
          THEN /\ phase' = "rejected"
               /\ Commit([Cur EXCEPT !.sock = "destroyed", !.hist.req = req])
               /\ UNCHANGED httpOut
          ELSE IF reply = "400"
          THEN /\ phase' = "rejected"
               /\ httpOut' = Append(httpOut, "400 Bad Request")
               /\ Commit([Cur EXCEPT !.sock = "destroyed", !.hist.req = req])
          ELSE /\ httpOut' = Append(httpOut, "101 Switching Protocols")
               /\ IF trim(env.xaiKey) = <<>> \/ trim(env.upstreamUrl) = <<>>
                  THEN /\ phase' = "configMissing"
                       /\ Commit(configMissing([Cur EXCEPT !.hist.req = req]))
                  ELSE IF env.construct # "ok"
                  THEN /\ phase' = "connectFailed"
                       /\ Commit(connectFailed([Cur EXCEPT !.hist.req = req]))
                  ELSE /\ phase' = "bridged"
                       /\ \E n \in 0..MaxClientFrames :
                             /\ wire' \in StreamsOf(ClientFrames, n)
                                          \cup StreamsOf(OpcodeFrames, n)
                             /\ Commit([Cur EXCEPT !.hist.req = req,
                                                    !.up = "CONNECTING",
                                                    !.hist.upCreated = @ + 1,
                                                    !.hist.sent = n])
    /\ (phase' # "bridged" => wire' = wire)
    /\ UNCHANGED <<env, buf, blobs>>
    /\ UNCHANGED <<codecVars, decodeVars, pairVars, headerVars, oauthVars>>

(***************************************************************************)
(* socket.on("data"), lines 225-259                                        *)
(***************************************************************************)
\* seeded fault: every payload is handed to upstream.send as raw bytes
forwardOf_raw(frame) == [kind |-> "binary", data |-> frame.payload]

\* lines 253-257: the argument of upstream.send for a text or binary frame
forwardOf(frame) ==
    IF frame.opcode = 1
    THEN [kind |-> "string", data |-> utf8Decode(frame.payload)]
    ELSE [kind |-> "binary", data |-> frame.payload]

\* seeded fault: only pong frames are discarded
discarded_pongOnly(frame) == frame.opcode = 10

\* lines 250-251: a pong, and every opcode that is neither text nor binary
discarded(frame) == frame.opcode = 10 \/ (frame.opcode # 1 /\ frame.opcode # 2)

\* seeded fault: no frame is skipped
skipFrame_never(s) == FALSE

\* seeded fault: frames are skipped only while the upstream is connecting
skipFrame_connectingOnly(s) == s.up = "CONNECTING"

\* seeded fault: frames are skipped only once the upstream is closing
skipFrame_closedOnly(s) == s.up \in {"CLOSING", "CLOSED"}

\* line 239: !upstream || upstream.readyState !== WebSocket.OPEN (upstream is
\* always set where the handler is installed)
skipFrame(s) == s.up # "OPEN"

\* seeded fault: a close frame ends the client socket and leaves the upstream
atCloseFrame_endOnly(s) == sockEnd([s EXCEPT !.hist.closeFrame = TRUE])

\* lines 241-244: a close frame runs closeBoth and ends the handler
atCloseFrame(s) == closeBoth([s EXCEPT !.hist.closeFrame = TRUE])

RECURSIVE forFrames(_, _, _)
\* the for loop of lines 238-258 from frame i on
forFrames(s, frames, i) ==
    IF i > Len(frames) THEN s
    ELSE LET frame == frames[i] IN
         IF skipFrame(s)
         THEN forFrames([s EXCEPT !.hist.dropped =
                             IF s.up = "CONNECTING" /\ frame.opcode \in {1, 2}
                             THEN @ + 1 ELSE @,
                                  !.hist.unsent =
                             IF s.up \in {"CLOSING", "CLOSED"} /\ frame.opcode \in {1, 2}
                             THEN @ + 1 ELSE @],
                        frames, i + 1)
         ELSE IF frame.opcode = 8
              THEN atCloseFrame(s)
         ELSE IF frame.opcode = 9
              THEN forFrames(sendPong(s, frame.payload), frames, i + 1)
         ELSE IF discarded(frame)
              THEN forFrames([s EXCEPT !.hist.discarded = @ + 1], frames, i + 1)
         ELSE forFrames(upSend(s, forwardOf(frame)), frames, i + 1)

\* seeded fault: the handler drops the unconsumed bytes instead of keeping them
dataRemaining_drop(parsed) == <<>>

\* line 236: buf = parsed.remaining
dataRemaining(parsed) == parsed.remaining

\* lines 226-236: what a "data" event does to buf, and the frames it hands to
\* the loop.  The throw of parseWsFrames leaves buf as assigned on line 226.
dataStep(bufv, chunk) ==
    LET joined == bufv \o chunk
        parsed == parseWsFrames(joined)
    IN  IF parsed.threw
        THEN [threw |-> TRUE, buf |-> joined, frames |-> <<>>]
        ELSE [threw |-> FALSE, buf |-> dataRemaining(parsed), frames |-> parsed.frames]

\* lines 225-259 on the transports
onData(s, step) ==
    IF step.threw
    THEN closeBoth(sendJson([s EXCEPT !.hist.threw = @ + 1],
                            By("decode"), errorJson(MsgFragmented)))
    ELSE forFrames(s, step.frames, 1)

\* a "data" event with the first k bytes in flight as chunk
SocketData ==
    /\ phase = "bridged"
    /\ sock \in {"open", "ended"}
    /\ \E k \in 1..Len(wire) :
          LET step == dataStep(buf, SubSeq(wire, 1, k))
          IN  /\ wire' = SubSeq(wire, k + 1, Len(wire))
              /\ buf' = step.buf
              /\ Commit(onData(Cur, step))
    /\ UNCHANGED <<env, phase, httpOut, blobs>>
    /\ UNCHANGED <<codecVars, decodeVars, pairVars, headerVars, oauthVars>>

(***************************************************************************)
(* socket "close" and "error", lines 261-262                               *)
(***************************************************************************)
\* the socket's "error" event: the stream is destroyed, the handler runs
SocketError ==
    /\ phase = "bridged"
    /\ sock \in {"open", "ended", "errored"}
    /\ Commit(closeBoth([Cur EXCEPT !.sock = "destroyed"]))
    /\ wire' = <<>>
    /\ UNCHANGED <<env, phase, httpOut, buf, blobs>>
    /\ UNCHANGED <<codecVars, decodeVars, pairVars, headerVars, oauthVars>>

\* the socket's "close" event (after "error" when there was one)
SocketClose ==
    /\ phase = "bridged"
    /\ sock \in {"open", "ended", "destroyed"}
    /\ Commit(closeBoth([Cur EXCEPT !.sock = "closed"]))
    /\ wire' = <<>>
    /\ UNCHANGED <<env, phase, httpOut, buf, blobs>>
    /\ UNCHANGED <<codecVars, decodeVars, pairVars, headerVars, oauthVars>>

(***************************************************************************)
(* upstream handlers, lines 264-296                                        *)
(***************************************************************************)
\* seeded fault: the open handler sends nothing
onopen_silent(s) == s

\* lines 264-266
onopen(s) == sendJson(s, By("ready"), ProxyReadyJson)

UpstreamOpen ==
    /\ phase = "bridged"
    /\ up = "CONNECTING"
    /\ Commit(onopen([Cur EXCEPT !.up = "OPEN"]))
    /\ UNCHANGED <<env, phase, httpOut, buf, wire, blobs>>
    /\ UNCHANGED <<codecVars, decodeVars, pairVars, headerVars, oauthVars>>

\* seeded fault: a text message is written as a binary frame
onmessage_binary(s, n, m) == sendWsFrame(s, Relay(n), 2, utf8Encode(m.data))

\* lines 270-278: a string is written as a text frame, an ArrayBuffer as a
\* binary frame, in the message handler itself
onmessage(s, n, m) ==
    IF m.kind = "string"
    THEN sendWsText(s, Relay(n), m.data)
    ELSE sendWsFrame(s, Relay(n), 2, m.data)

\* seeded fault: a Blob is written in the message handler itself
deferred_never(m) == FALSE

\* lines 280-286: a payload that is neither a string nor an ArrayBuffer is
\* written by the callback of its arrayBuffer() promise
deferred(m) == m.kind \notin {"string", "arraybuffer"}

\* lines 268-287; a message event is dispatched only while readyState is OPEN
UpstreamMessage ==
    /\ phase = "bridged"
    /\ up = "OPEN"
    /\ hist.upMsgs < MaxUpMsgs
    /\ hist.sent + hist.upMsgs < MaxInputs
    /\ \E m \in UpMessages :
          LET n == hist.upMsgs + 1
              s0 == [Cur EXCEPT !.hist.upMsgs = n, !.hist.upIn = Append(@, m)]
          IN  IF ~deferred(m)
              THEN /\ Commit(onmessage(s0, n, m))
                   /\ UNCHANGED blobs
              ELSE /\ Commit(s0)
                   /\ blobs' = blobs \cup {[n |-> n, data |-> m.data]}
    /\ UNCHANGED <<env, phase, httpOut, buf, wire>>
    /\ UNCHANGED <<codecVars, decodeVars, pairVars, headerVars, oauthVars>>

\* line 284: arrayBuffer() resolved
BlobResolved ==
    /\ \E b \in blobs :
          /\ blobs' = blobs \ {b}
          /\ Commit(sendWsFrame(Cur, Relay(b.n), 2, b.data))
    /\ UNCHANGED <<env, phase, httpOut, buf, wire>>
    /\ UNCHANGED <<codecVars, decodeVars, pairVars, headerVars, oauthVars>>

\* seeded fault: the rejection is reported like an upstream error
onrejected_error(s) == closeBoth(sendJson(s, By("uperror"), errorJson(MsgUpstreamError)))

\* line 285: .catch(() => {})
onrejected(s) == s

\* line 285: arrayBuffer() rejected
BlobRejected ==
    /\ \E b \in blobs : blobs' = blobs \ {b}
    /\ Commit(onrejected([Cur EXCEPT !.hist.rejected = @ + 1]))
    /\ UNCHANGED <<env, phase, httpOut, buf, wire>>
    /\ UNCHANGED <<codecVars, decodeVars, pairVars, headerVars, oauthVars>>

\* seeded fault: the error handler sends the ready message (a copied line)
onerror_ready(s) == closeBoth(sendJson(s, By("uperror"), ProxyReadyJson))

\* seeded fault: the error handler opens a new upstream connection
onerror_reconnect(s) ==
    [sendJson(s, By("uperror"), errorJson(MsgUpstreamError))
        EXCEPT !.up = "CONNECTING", !.hist.upCreated = @ + 1]

\* seeded fault: the transports are closed before the message is sent
onerror_closeFirst(s) == sendJson(closeBoth(s), By("uperror"), errorJson(MsgUpstreamError))

\* lines 289-292
onerror(s) == closeBoth(sendJson(s, By("uperror"), errorJson(MsgUpstreamError)))

\* an "error" event of the upstream; it may be dispatched more than once
UpstreamError ==
    /\ phase = "bridged"
    /\ up \in {"CONNECTING", "OPEN", "CLOSING"}
    /\ Commit(onerror([Cur EXCEPT !.hist.upError = TRUE]))
    /\ UNCHANGED <<env, phase, httpOut, buf, wire, blobs>>
    /\ UNCHANGED <<codecVars, decodeVars, pairVars, headerVars, oauthVars>>

\* lines 294-296
UpstreamClose ==
    /\ phase = "bridged"
    /\ up \in {"CONNECTING", "OPEN", "CLOSING"}
    /\ Commit(closeBoth([Cur EXCEPT !.up = "CLOSED"]))
    /\ UNCHANGED <<env, phase, httpOut, buf, wire, blobs>>
    /\ UNCHANGED <<codecVars, decodeVars, pairVars, headerVars, oauthVars>>

Next ==
    \/ Upgrade
    \/ SocketData
    \/ SocketError
    \/ SocketClose
    \/ UpstreamOpen
    \/ UpstreamMessage
    \/ BlobResolved
    \/ BlobRejected
    \/ UpstreamError
    \/ UpstreamClose

Spec == Init /\ [][Next]_vars

(***************************************************************************)
(* Session states of the bridge and the shape of a step                    *)
(***************************************************************************)
\* handshake done, upstream not yet open
Connecting == phase = "bridged" /\ sock = "open" /\ up = "CONNECTING"
\* upstream open, both directions relayed
Active == phase = "bridged" /\ sock = "open" /\ up = "OPEN"

\* both transports have been asked to close, or have closed
Closed == phase = "bridged" /\ sock # "open" /\ up \notin {"CONNECTING", "OPEN"}

\* the step is a "data" event of the bridge (the only steps that consume the
\* wire and leave the socket undestroyed), of DataK bytes
IsDataStep ==
    /\ phase = "bridged"
    /\ sock \in {"open", "ended"}
    /\ Len(wire') < Len(wire)
    /\ sock' \notin {"destroyed", "closed"}
DataK == Len(wire) - Len(wire')
\* what that event decodes
DataStepOf == dataStep(buf, SubSeq(wire, 1, DataK))

\* the frames of a decoded batch that precede its first close frame
BeforeClose(frames) ==
    LET closes == {i \in 1..Len(frames) : frames[i].opcode = 8}
    IN  IF closes = {} THEN frames
        ELSE SubSeq(frames, 1, (CHOOSE i \in closes : \A j \in closes : i <= j) - 1)

\* the pong frames answering the pings of `frames`, in order
PongsFor(frames) ==
    LET pings == SelectSeq(frames, LAMBDA f : f.opcode = 9)
    IN  [i \in 1..Len(pings) |->
            [by |-> By("pong"), bytes |-> wsFrameBytes(10, pings[i].payload)]]

\* the frame carrying JSON text `json`
JsonFrame(json) == wsFrameBytes(1, utf8Encode(json))

ReadyFrame == JsonFrame(ProxyReadyJson)
FragmentErrorFrame == JsonFrame(errorJson(MsgFragmented))
MissingKeyFrame == JsonFrame(errorJson(MsgMissingKey))
MissingUrlFrame == JsonFrame(errorJson(MsgMissingUrl))
UpstreamErrorFrame == JsonFrame(errorJson(MsgUpstreamError))

\* a text frame (FIN=1, opcode 1, 7-bit length) whose payload starts with
\* {"type":"error","error":"
IsErrorFrame(bytes) ==
    /\ Len(bytes) >= 2 + Len(JsonErrorPrefix)
    /\ bytes[1] = 129
    /\ bytes[2] = Len(bytes) - 2
    /\ SubSeq(bytes, 3, 2 + Len(JsonErrorPrefix)) = JsonErrorPrefix

ErrorFramesOut == {i \in 1..Len(clientOut) : IsErrorFrame(clientOut[i].bytes)}

(***************************************************************************)
(* Claims about the relay                                                  *)
(***************************************************************************)
\* C1: in every non-closed session state, Connecting as well as Active, each
\* client ping frame with payload P decoded by the data handler causes exactly
\* one pong frame (opcode 0xA) with payload P to be written to the client,
\* nothing to be sent to the upstream, and no state change.
C1_PingPong ==
    [][ (IsDataStep /\ (Connecting \/ Active) /\ ~DataStepOf.threw) =>
          LET live == BeforeClose(DataStepOf.frames)
          IN  /\ clientOut' = clientOut \o PongsFor(live)
              /\ (live = DataStepOf.frames /\ \A i \in 1..Len(live) : live[i].opcode = 9) =>
                    (upSent' = upSent /\ sock' = sock /\ up' = up) ]_vars

\* C2: a client close frame decoded in any non-closed state, Connecting
\* included, closes the upstream transport and the client transport and moves
\* the session to Closed.
C2_CloseFrame ==
    [][ (/\ IsDataStep
         /\ (Connecting \/ Active)
         /\ ~DataStepOf.threw
         /\ \E i \in 1..Len(DataStepOf.frames) : DataStepOf.frames[i].opcode = 8) =>
          (sock' = "ended" /\ up' = "CLOSING") ]_vars

\* C3: after a client close frame in Active, each transport has been closed
\* exactly once, and whatever events follow (upstream close, socket close,
\* socket error, and any other) no handler fails, nothing more is written to
\* the client or sent to the upstream, and no transport is closed again.
C3_CloseOnce ==
    /\ [](hist.closeFrame => (hist.ends = 1 /\ hist.upCloses = 1 /\ hist.uncaught = 0))
    /\ [][ hist.closeFrame =>
             /\ clientOut' = clientOut
             /\ upSent' = upSent
             /\ hist'.ends = hist.ends
             /\ hist'.upCloses = hist.upCloses
             /\ hist'.uncaught = hist.uncaught ]_vars

\* the close frame was acted on and the socket and upstream close events have
\* both run closeBoth again
C3_Witness ==
    /\ hist.closeFrame
    /\ sock = "closed"
    /\ up = "CLOSED"
    /\ hist.ends = 1
    /\ hist.upCloses = 1

\* C4: the {"type":"proxy.ready"} text frame is written to the client
\* strictly before any frame that relays an upstream message.
C4_ReadyFirst ==
    \A i \in 1..Len(clientOut) :
        clientOut[i].by.h = "relay" =>
            \E j \in 1..(i - 1) :
                /\ clientOut[j].by.h = "ready"
                /\ clientOut[j].bytes = ReadyFrame

C4_Witness ==
    /\ Len(clientOut) >= 3
    /\ clientOut[1].bytes = ReadyFrame
    /\ clientOut[2].by = Relay(1)
    /\ clientOut[3].by = Relay(2)

\* the proxy.ready frames the bridge itself wrote (relayed upstream payloads
\* are opaque and not counted)
ReadyFramesOut ==
    {i \in 1..Len(clientOut) :
        clientOut[i].bytes = ReadyFrame /\ clientOut[i].by.h # "relay"}

\* C5: the proxy.ready message is sent to the client at most once, and only as
\* the effect of the upstream open event, never in the configuration-missing
\* or connect-failure paths.
C5_ReadyOnce ==
    /\ [](/\ Cardinality(ReadyFramesOut) <= 1
          /\ (ReadyFramesOut # {} => phase = "bridged"))
    /\ [][ Cardinality(ReadyFramesOut') > Cardinality(ReadyFramesOut) =>
             (phase = "bridged" /\ up = "CONNECTING" /\ up' = "OPEN") ]_vars

\* the ready message was sent and the upstream failed afterwards
C5_Witness ==
    /\ Cardinality(ReadyFramesOut) = 1
    /\ \E i \in 1..Len(clientOut) : clientOut[i].by.h = "uperror"

\* C6: when the credential or the endpoint URL is empty or whitespace only at
\* an accepted upgrade, the client receives exactly one {"type":"error",...}
\* message naming the missing value, the client transport is then closed, and
\* no upstream connection is ever constructed.
C6_ConfigMissing ==
    (/\ phase \notin {"idle", "rejected"}
     /\ (trimStart(env.xaiKey) = <<>> \/ trimStart(env.upstreamUrl) = <<>>)) =>
        /\ phase = "configMissing"
        /\ Cardinality(ErrorFramesOut) = 1
        /\ clientOut[1].bytes = (IF \A i \in 1..Len(env.xaiKey) : env.xaiKey[i] = 32
                                 THEN MissingKeyFrame ELSE MissingUrlFrame)
        /\ sock = "ended"
        /\ up = "none"
        /\ hist.upCreated = 0

\* a whitespace-only URL with a credential present
C6_Witness ==
    /\ phase = "configMissing"
    /\ env.xaiKey = <<107>>
    /\ env.upstreamUrl = <<32>>
    /\ clientOut[1].bytes = MissingUrlFrame
    /\ sock = "ended"

\* the error frames written by the catch of the data handler
DecodeErrorsOut == {i \in 1..Len(clientOut) : clientOut[i].by.h = "decode"}

\* C7: a client frame with FIN=0 makes decoding fail and terminates the
\* session: in Connecting and in Active the client is sent the structured
\* error message and both transports are closed, and whatever data events
\* arrive afterwards that message is not sent a second time.
C7_Fragment ==
    /\ [][ (/\ IsDataStep
            /\ (Connecting \/ Active)
            /\ \/ DataStepOf.threw
               \/ (buf = <<>> /\ DataK >= 2 /\ wire[1] < 128)) =>
             /\ clientOut' = Append(clientOut, [by |-> By("decode"),
                                                bytes |-> FragmentErrorFrame])
             /\ IsErrorFrame(clientOut'[Len(clientOut')].bytes)
             /\ sock' = "ended"
             /\ up' = "CLOSING" ]_vars
    /\ [](Cardinality(DecodeErrorsOut) <= 1)

\* decoding failed on two data events of one session; one error frame went out
C7_Witness ==
    /\ hist.threw >= 2
    /\ Cardinality(DecodeErrorsOut) = 1
    /\ Cardinality(ErrorFramesOut) = 1

\* C13: an upgrade request to /voice without a Sec-WebSocket-Key header or
\* with a Sec-WebSocket-Version other than "13" is answered with the 400 status
\* line and the socket is destroyed: no 101, no WebSocket frame, no upstream,
\* and no handler is installed (nothing of the session changes afterwards).
C13_BadHandshake ==
    /\ []( (/\ phase # "idle"
            /\ hist.req.path = "/voice"
            /\ (hist.req.key # "string" \/ hist.req.version # "13")) =>
              /\ phase = "rejected"
              /\ httpOut = <<"400 Bad Request">>
              /\ sock = "destroyed"
              /\ clientOut = <<>>
              /\ upSent = <<>>
              /\ up = "none"
              /\ hist.upCreated = 0 )
    /\ [][ (phase = "rejected" /\ hist.req.path = "/voice") => UNCHANGED sessVars ]_vars

\* a key is present but the version is 8
C13_Witness ==
    /\ phase = "rejected"
    /\ hist.req = [path |-> "/voice", key |-> "string", version |-> "8"]
    /\ httpOut = <<"400 Bad Request">>
    /\ sock = "destroyed"

\* C14: an upgrade request to a path other than /voice has its socket
\* destroyed with nothing written, whatever its key and version headers are,
\* and no upstream connection is constructed.
C14_BadPath ==
    (phase # "idle" /\ hist.req.path # "/voice") =>
        /\ phase = "rejected"
        /\ httpOut = <<>>
        /\ clientOut = <<>>
        /\ sock = "destroyed"
        /\ up = "none"
        /\ hist.upCreated = 0

\* a wrong path together with headers that would earn the 400 response
C14_Witness ==
    /\ phase = "rejected"
    /\ hist.req = [path |-> "/other", key |-> "undefined", version |-> "8"]
    /\ httpOut = <<>>
    /\ sock = "destroyed"

\* C15: the first upstream error event of an Active session writes the frame
\* {"type":"error","error":"Upstream websocket error."} to the client, which
\* takes it because the socket is ended only afterwards, and closes both
\* transports: the session is Closed.
C15_UpstreamError ==
    [][ (Active /\ ~hist.upError /\ hist'.upError) =>
          /\ clientOut' = Append(clientOut, [by |-> By("uperror"),
                                             bytes |-> UpstreamErrorFrame])
          /\ upSent' = upSent
          /\ sock' = "ended"
          /\ up' = "CLOSING"
          /\ Closed' ]_vars

\* ready, then the upstream failed: the error frame is the last frame written
C15_Witness ==
    /\ hist.upError
    /\ Len(clientOut) = 2
    /\ clientOut[1].bytes = ReadyFrame
    /\ clientOut[2] = [by |-> By("uperror"), bytes |-> UpstreamErrorFrame]
    /\ sock = "ended"
    /\ up = "CLOSING"

\* C16: in a session with an upstream, Connecting or Active, the close of one
\* transport closes the other within the same handler: an upstream close event
\* ends the client socket, a client socket close or error event calls
\* upstream.close(), and so in every state either both transports are open
\* or both are closed (the session is Closed).
C16_CloseBoth ==
    /\ [](phase = "bridged" => (sock = "open" <=> up \in {"CONNECTING", "OPEN"}))
    /\ [][ (Connecting \/ Active) =>
             /\ (up' = "CLOSED" =>
                    (sock' = "ended" /\ hist'.ends = hist.ends + 1 /\ Closed'))
             /\ (sock' \in {"closed", "destroyed"} =>
                    (up' = "CLOSING" /\ hist'.upCloses = hist.upCloses + 1 /\ Closed')) ]_vars

\* the upstream of a Connecting session closed by itself (upstream.close() was
\* never what closed it) and the client socket was ended by the close handler
C16_Witness ==
    /\ phase = "bridged"
    /\ up = "CLOSED"
    /\ sock = "ended"
    /\ hist.upCloses = 0
    /\ hist.ends = 1
    /\ ~hist.upError
    /\ clientOut = <<>>

\* the text and binary frames of a decoded batch, in order
DataFrames(frames) == SelectSeq(frames, LAMBDA f : f.opcode = 1 \/ f.opcode = 2)

\* the messages appended to upSent by the step
NewlySent == SubSeq(upSent', Len(upSent) + 1, Len(upSent'))

\* C17 as stated: in Active the messages sent to the upstream are the text and
\* binary frames decoded, in order, each once, every payload unchanged: the
\* UTF-8 bytes of a forwarded text are the payload bytes of the frame.
C17_Verbatim ==
    [][ (IsDataStep /\ Active /\ ~DataStepOf.threw) =>
          LET fw == DataFrames(BeforeClose(DataStepOf.frames))
          IN  /\ Len(upSent') = Len(upSent) + Len(fw)
              /\ SubSeq(upSent', 1, Len(upSent)) = upSent
              /\ \A i \in 1..Len(fw) :
                    IF fw[i].opcode = 1
                    THEN /\ NewlySent[i].kind = "string"
                         /\ utf8Encode(NewlySent[i].data) = fw[i].payload
                    ELSE /\ NewlySent[i].kind = "binary"
                         /\ NewlySent[i].data = fw[i].payload ]_vars

\* C17, amended: in Active the messages sent to the upstream are the text and
\* binary frames decoded, in order, each once; a binary payload is sent as the
\* same bytes, a text payload as the string it decodes to as UTF-8, which has
\* the same bytes when the payload is well-formed UTF-8 and U+FFFD in place of
\* each ill-formed byte otherwise.  Nothing else is ever sent to the upstream.
C17_Forward ==
    [][ /\ (upSent' # upSent => (IsDataStep /\ Active))
        /\ ((IsDataStep /\ Active) =>
              \A step \in {DataStepOf} :
                ~step.threw =>
                  \A fw \in {DataFrames(BeforeClose(step.frames))} :
                  \A sent \in {NewlySent} :
                    /\ Len(sent) = Len(fw)
                    /\ SubSeq(upSent', 1, Len(upSent)) = upSent
                    /\ \A i \in 1..Len(fw) :
                         \A payload \in {fw[i].payload} :
                           IF fw[i].opcode = 1
                           THEN /\ sent[i].kind = "string"
                                /\ sent[i].data = utf8Decode(payload)
                                /\ ((\A k \in 1..Len(payload) : payload[k] < 128) =>
                                       sent[i].data = payload)
                                /\ ((\A k \in 1..Len(payload) : payload[k] >= 245) =>
                                       sent[i].data =
                                           [k \in 1..Len(payload) |-> ReplacementChar])
                           ELSE /\ sent[i].kind = "binary"
                                /\ sent[i].data = payload) ]_vars

\* a text frame and then a binary frame were decoded in an Active session and
\* forwarded in that order
C17_Witness ==
    /\ hist.sent = 2
    /\ wire = <<>>
    /\ buf = <<>>
    /\ upSent = << [kind |-> "string", data |-> <<104>>],
                   [kind |-> "binary", data |-> <<255>>] >>

\* C18: a text or binary frame decoded while the session is Connecting is
\* dropped.  The data event sends nothing to the upstream and leaves no whole
\* frame in the receive buffer; the upstream open event sends nothing (there is
\* no queue to flush); and every later send carries only frames decoded by the
\* data event that makes it.
C18_Dropped ==
    /\ [][ (IsDataStep /\ Connecting /\ ~DataStepOf.threw) =>
             /\ upSent' = upSent
             /\ buf' = parseWsFrames(buf \o SubSeq(wire, 1, DataK)).remaining
             /\ parseWsFrames(buf').frames = <<>>
             /\ hist'.dropped = hist.dropped + Len(DataFrames(DataStepOf.frames))
             /\ hist'.uncaught = hist.uncaught ]_vars
    /\ [][ (up = "CONNECTING" /\ up' = "OPEN") => (upSent' = upSent /\ upSent = <<>>) ]_vars
    /\ [][ upSent' # upSent =>
             /\ IsDataStep
             /\ Active
             /\ Len(NewlySent) <= Len(DataFrames(DataStepOf.frames)) ]_vars

\* a text frame was dropped in Connecting; after the open event only the
\* binary frame that followed it reached the upstream
C18_Witness ==
    /\ hist.dropped = 1
    /\ hist.sent = 2
    /\ up = "OPEN"
    /\ wire = <<>>
    /\ buf = <<>>
    /\ upSent = << [kind |-> "binary", data |-> <<255>>] >>

\* where the frame relaying upstream message n stands in clientOut
RelayAt(n) == {i \in 1..Len(clientOut) : clientOut[i].by = Relay(n)}
\* the upstream messages that arrived as a string or as an ArrayBuffer
SyncArrivals == {n \in 1..Len(hist.upIn) : hist.upIn[n].kind \in {"string", "arraybuffer"}}
\* the upstream messages that arrived as a Blob
BlobArrivals == {n \in 1..Len(hist.upIn) : hist.upIn[n].kind = "blob"}

\* C19: every upstream message that arrived as a string or as an ArrayBuffer
\* has been written to the client exactly once, a string as a text frame with
\* its UTF-8 bytes and an ArrayBuffer as a binary frame with its bytes, and
\* these frames stand in the order in which the messages arrived.
C19_RelayOrder ==
    /\ \A n \in SyncArrivals :
          /\ Cardinality(RelayAt(n)) = 1
          /\ \A i \in RelayAt(n) :
                LET m == hist.upIn[n]
                    bytes == clientOut[i].bytes
                IN  /\ bytes[1] = (IF m.kind = "string" THEN 129 ELSE 130)
                    /\ bytes[2] = Len(bytes) - 2
                    /\ SubSeq(bytes, 3, Len(bytes)) =
                           (IF m.kind = "string" THEN utf8Encode(m.data) ELSE m.data)
    /\ \A n1, n2 \in SyncArrivals :
          n1 < n2 => \A i \in RelayAt(n1), j \in RelayAt(n2) : i < j

\* an ArrayBuffer and then a string arrived and were written in that order
C19_Witness ==
    /\ Len(hist.upIn) = 2
    /\ hist.upIn[1].kind = "arraybuffer"
    /\ hist.upIn[2].kind = "string"
    /\ Len(clientOut) = 3
    /\ clientOut[2] = [by |-> Relay(1), bytes |-> <<130, 1, 1>>]
    /\ clientOut[3] = [by |-> Relay(2), bytes |-> <<129, 2, 104, 105>>]

\* C20: a Blob is never written by the message event that delivers it but by
\* a later step, at most once and as a binary frame with its bytes, so that
\* its frame can follow the frame of a message that arrived after it.
C20_Deferred ==
    /\ [][ Len(hist'.upIn) > Len(hist.upIn) =>
             \A n \in BlobArrivals' : RelayAt(n)' = RelayAt(n) ]_vars
    /\ [](\A n \in BlobArrivals :
             /\ Cardinality(RelayAt(n)) <= 1
             /\ \A i \in RelayAt(n) :
                   clientOut[i].bytes = <<130, Len(hist.upIn[n].data)>> \o hist.upIn[n].data)

\* a Blob arrived first and a string second; the client was sent the text
\* frame first and the binary frame second
C20_Witness ==
    /\ Len(hist.upIn) = 2
    /\ hist.upIn[1].kind = "blob"
    /\ hist.upIn[2].kind = "string"
    /\ Len(clientOut) = 3
    /\ clientOut[2] = [by |-> Relay(2), bytes |-> <<129, 2, 104, 105>>]
    /\ clientOut[3] = [by |-> Relay(1), bytes |-> <<130, 1, 2>>]

\* the frame reporting that new WebSocket(...) threw
ConnectErrorFrame ==
    JsonFrame(errorJson(MsgFailedConnect
                        \o (IF env.construct = "throwsError" THEN MsgConstruct
                            ELSE MsgUnknownError)))

\* C21: when new WebSocket(...) throws at an accepted upgrade with a complete
\* configuration, the client is sent exactly one frame, the structured error
\* message carrying "Failed to connect upstream: " and the failure, the client
\* socket is ended, no upstream exists, and the handler returns before it
\* installs any handler: nothing of the session changes afterwards.
C21_ConnectFailed ==
    /\ []( (/\ phase \notin {"idle", "rejected", "configMissing"}
            /\ env.construct # "ok") =>
              /\ phase = "connectFailed"
              /\ clientOut = <<[by |-> By("connect"), bytes |-> ConnectErrorFrame]>>
              /\ IsErrorFrame(clientOut[1].bytes)
              /\ sock = "ended"
              /\ up = "none"
              /\ upSent = <<>>
              /\ hist.upCreated = 0 )
    /\ [][ phase = "connectFailed" => UNCHANGED sessVars ]_vars

\* the constructor threw something that is not an Error
C21_Witness ==
    /\ phase = "connectFailed"
    /\ env.construct = "throwsOther"
    /\ Len(clientOut) = 1
    /\ clientOut[1].bytes = JsonFrame(errorJson(MsgFailedConnect \o MsgUnknownError))
    /\ sock = "ended"

\* C22: a session constructs at most one upstream connection, and only in the
\* upgrade handler: no later event constructs one, and a session that is
\* Closed stays Closed.
C22_OneUpstream ==
    /\ [](hist.upCreated <= 1)
    /\ [][ phase # "idle" => hist'.upCreated = hist.upCreated ]_vars
    /\ [][ Closed => Closed' ]_vars

\* the upstream failed and closed, the client socket closed: one connection
\* was made in all
C22_Witness ==
    /\ phase = "bridged"
    /\ hist.upError
    /\ up = "CLOSED"
    /\ sock = "closed"
    /\ hist.upCreated = 1

\* C23: over any sequence of events of a session the client is sent at most
\* one {"type":"error",...} frame, and the handler that writes it finds the
\* client socket open and ends it afterwards.
C23_OneError ==
    /\ [](Cardinality(ErrorFramesOut) <= 1)
    /\ [][ ErrorFramesOut' # ErrorFramesOut => (sock = "open" /\ sock' = "ended") ]_vars

\* an upstream error was followed by a failing data event, whose error
\* message the ended socket refused: one error frame
C23_Witness ==
    /\ hist.upError
    /\ hist.threw >= 1
    /\ sock = "errored"
    /\ Cardinality(ErrorFramesOut) = 1
    /\ \E i \in 1..Len(clientOut) : clientOut[i].by = By("uperror")

\* some prefix of the buffer is one or more whole FIN=1 frames: the parse
\* loop attributes bytes at the head of the buffer to a complete frame
WholeFrameAtHead(buffer) ==
    \E k \in 2..Len(buffer) :
        LET p == parseWsFrames(SubSeq(buffer, 1, k))
        IN  ~p.threw /\ Len(p.frames) >= 1

\* C26: after every data event, however it ends, the receive buffer holds
\* no byte of a complete frame: no whole frame stands at its head.
C26_BufferClean ==
    [][ IsDataStep => ~WholeFrameAtHead(buf') ]_vars

\* the frames of a decoded batch that lines 241-257 act on
ActedOn(frames) == SelectSeq(frames, LAMBDA f : f.opcode \in {1, 2, 8, 9})

\* C27: a pong frame and a FIN=1 frame with opcode 0x0 or any other opcode
\* outside text, binary, close, ping and pong is discarded.  A batch made of
\* such frames only writes nothing, sends nothing and leaves both transports
\* as they are; in Active a batch that holds such frames has the effect of
\* the same batch without them, so the frames after them are processed.
C27_Discarded ==
    [][ (IsDataStep /\ (Connecting \/ Active)) =>
          \A step \in {DataStepOf} :
            ~step.threw =>
              \A kept \in {ActedOn(step.frames)} :
              \A rest \in {forFrames(Cur, kept, 1)} :
                /\ (kept = <<>> =>
                       /\ clientOut' = clientOut
                       /\ upSent' = upSent
                       /\ sock' = sock
                       /\ up' = up)
                /\ clientOut' = rest.clientOut
                /\ upSent' = rest.upSent
                /\ sock' = rest.sock
                /\ up' = rest.up
                /\ (Active =>
                       hist'.discarded = hist.discarded
                           + Len(SelectSeq(BeforeClose(step.frames),
                                           LAMBDA f : f.opcode \notin {1, 2, 8, 9}))) ]_vars

\* one frame of an Active session was discarded, the text frame sent with it
\* was forwarded, and nothing but proxy.ready was written to the client
C27_Witness ==
    /\ Active
    /\ hist.discarded = 1
    /\ hist.sent = 2
    /\ wire = <<>>
    /\ buf = <<>>
    /\ upSent = << [kind |-> "string", data |-> <<104>>] >>
    /\ clientOut = <<[by |-> By("ready"), bytes |-> ReadyFrame]>>

\* C28: when the arrayBuffer() promise of a Blob is rejected, nothing is
\* written to the client, nothing is sent, neither transport is closed and
\* the session stays where it is; the strings and ArrayBuffers that arrive,
\* before or after, are all relayed.
C28_RejectSilent ==
    /\ [][ hist'.rejected > hist.rejected =>
             /\ clientOut' = clientOut
             /\ upSent' = upSent
             /\ sock' = sock
             /\ up' = up
             /\ buf' = buf
             /\ phase' = phase
             /\ hist'.uncaught = hist.uncaught ]_vars
    /\ [](hist.rejected >= 1 =>
             /\ ErrorFramesOut = {i \in ErrorFramesOut : clientOut[i].by.h \in {"uperror", "decode"}}
             /\ \A n \in SyncArrivals : Cardinality(RelayAt(n)) = 1)

\* a Blob arrived and its promise was rejected; the string that arrived as
\* the second message is the only relayed frame, and the session is Active
C28_Witness ==
    /\ Active
    /\ hist.rejected = 1
    /\ blobs = {}
    /\ Len(hist.upIn) = 2
    /\ hist.upIn[1].kind = "blob"
    /\ hist.upIn[2].kind = "string"
    /\ clientOut = << [by |-> By("ready"), bytes |-> ReadyFrame],
                      [by |-> Relay(2), bytes |-> <<129, 2, 104, 105>>] >>

C30_OnlyError ==
    phase = "configMissing" =>
        /\ Len(clientOut) = 1
        /\ IsErrorFrame(clientOut[1].bytes)

\* closeBoth has run in this session: the writable side of the client socket
\* was ended (or the socket is gone) and the upstream was asked to close
CloseBothRan == phase = "bridged" /\ sock # "open"

C32_SendOnlyOpen ==
    /\ [](hist.badSends = 0)
    /\ [][ upSent' # upSent =>
             /\ up = "OPEN"
             /\ sock = "open"
             /\ hist.upCloses = 0
             /\ hist.ends = 0
             /\ ~hist.upError ]_vars
    /\ [][ hist'.badSends = hist.badSends ]_vars

\* one data frame arrived while the upstream was CONNECTING and one after an
\* upstream error had closed it: neither was handed to upstream.send
C32_Witness ==
    /\ hist.dropped = 1
    /\ hist.unsent = 1
    /\ hist.upError
    /\ hist.sent = 2
    /\ wire = <<>>
    /\ upSent = <<>>
    /\ hist.badSends = 0
    /\ hist.uncaught = 0

\* C34: no client frame that follows a processed close frame is forwarded to
\* the upstream or answered with a pong.  In the data event that holds the
\* close frame only the frames before it are acted on; in every later data
\* event nothing is sent and nothing is written.
C34_AfterClose ==
    /\ [][ (IsDataStep /\ Active) =>
             \A step \in {DataStepOf} :
               (~step.threw /\ \E i \in 1..Len(step.frames) : step.frames[i].opcode = 8) =>
                 \A live \in {BeforeClose(step.frames)} :
                   /\ hist'.closeFrame
                   /\ Len(upSent') = Len(upSent) + Len(DataFrames(live))
                   /\ clientOut' = clientOut \o PongsFor(live) ]_vars
    /\ [][ (hist.closeFrame /\ IsDataStep) =>
             /\ upSent' = upSent
             /\ clientOut' = clientOut
             /\ \A step \in {DataStepOf} :
                  ~step.threw =>
                    hist'.unsent = hist.unsent + Len(DataFrames(step.frames)) ]_vars

\* a close frame was processed and the data frame that followed it in a later
\* data event was neither forwarded nor answered
C34_Witness ==
    /\ hist.closeFrame
    /\ hist.unsent = 1
    /\ hist.sent = 2
    /\ wire = <<>>
    /\ buf = <<>>
    /\ upSent = <<>>
    /\ clientOut = <<[by |-> By("ready"), bytes |-> ReadyFrame]>>

RECURSIVE bytewise(_, _, _)
\* the session after `bytes` arrived one byte per data event, from buffer bufv
bytewise(s, bufv, bytes) ==
    IF bytes = <<>> THEN s
    ELSE LET step == dataStep(bufv, <<Head(bytes)>>)
         IN  bytewise(onData(s, step), step.buf, Tail(bytes))

\* the first complete frame of `bytes` as a one-element sequence, <<>> when
\* the bytes do not begin with a complete FIN=1 frame
FirstWhole(bytes) ==
    LET whole == {k \in 2..Len(bytes) :
                     LET p == parseWsFrames(SubSeq(bytes, 1, k))
                     IN  ~p.threw /\ Len(p.frames) >= 1}
    IN  IF whole = {} THEN <<>>
        ELSE LET k == CHOOSE k \in whole : \A j \in whole : k <= j
             IN  <<parseWsFrames(SubSeq(bytes, 1, k)).frames[1]>>

\* C33: what the relay does with a complete text, binary or ping frame does
\* not depend on how the client's bytes are chunked, a FIN=0 frame following
\* it included: in Active a data event whose bytes begin with such a frame
\* sends to the upstream and writes to the client what the same bytes do when
\* they arrive in separate data events, so the frame is forwarded or answered
\* before the session is torn down.
C33_ChunkIndependent ==
    [][ (IsDataStep /\ Active) =>
          \A first \in {FirstWhole(buf \o SubSeq(wire, 1, DataK))} :
            (first # <<>> /\ first[1].opcode \in {1, 2, 9}) =>
              \A apart \in {bytewise(Cur, buf, SubSeq(wire, 1, DataK))} :
                /\ upSent' = apart.upSent
                /\ clientOut' = apart.clientOut ]_vars

(***************************************************************************)
(* Codec harness: sendWsFrame followed by parseWsFrames on one frame       *)
(***************************************************************************)
\* payload contents are drawn from MaxSeed + 1 patterns
MaxSeed == 1
\* payload lengths 0..MaxExtraLen are tried besides the boundary lengths
MaxExtraLen == 2

\* the payload lengths at which sendWsFrame changes its header format
BoundaryLengths == {0, 125, 126, 65535, 65536}

Opcodes == 0..15

PayloadOf(len, seed) == [i \in 1..len |-> (seed * 101 + 7 * i) % 256]

SessionIdle ==
    /\ env = [xaiKey |-> <<>>, upstreamUrl |-> <<>>, construct |-> "ok"]
    /\ phase = "idle"
    /\ httpOut = <<>>
    /\ sock = "open"
    /\ up = "none"
    /\ buf = <<>>
    /\ wire = <<>>
    /\ clientOut = <<>>
    /\ upSent = <<>>
    /\ blobs = {}
    /\ hist = HistInit

CodecInit ==
    /\ SessionIdle
    /\ PairOff
    /\ HeaderOff
    /\ OAuthOff
    /\ DecodeOff
    /\ cPc = "input"
    /\ cOpcode \in Opcodes
    /\ \E len \in BoundaryLengths \cup (0..MaxExtraLen), seed \in 0..MaxSeed :
          cPayload = PayloadOf(len, seed)
    /\ cWire = <<>>
    /\ cParsed = [threw |-> FALSE, frames |-> <<>>, remaining |-> <<>>]

\* sendWsFrame(socket, cPayload, {opcode: cOpcode}): the bytes written
CodecEncode ==
    /\ cPc = "input"
    /\ cWire' = wsFrameBytes(cOpcode, cPayload)
    /\ cPc' = "encoded"
    /\ UNCHANGED <<cOpcode, cPayload, cParsed>>
    /\ UNCHANGED <<sessVars, decodeVars, pairVars, headerVars, oauthVars>>

\* parseWsFrames applied to the bytes written
CodecDecode ==
    /\ cPc = "encoded"
    /\ cParsed' = parseWsFrames(cWire)
    /\ cPc' = "decoded"
    /\ UNCHANGED <<cOpcode, cPayload, cWire>>
    /\ UNCHANGED <<sessVars, decodeVars, pairVars, headerVars, oauthVars>>

CodecNext == CodecEncode \/ CodecDecode

SpecCodec == CodecInit /\ [][CodecNext]_vars

(***************************************************************************)
(* Decode harness: the receive buffer of one session over a chunked stream *)
(***************************************************************************)
\* frames in the stream of the decode harness
MaxDecodeFrames == 2

\* every header shape parseWsFrames tells apart: 7, 16 and 64 bit lengths,
\* masked and unmasked, control and data opcodes, and a FIN=0 frame
DecodeFrames ==
    {FrameTextMasked, FrameBinary, FramePing, FrameClose, FrameContinuation,
     FrameFragment, FrameBinary16, FrameText64}

DecodeInit ==
    /\ SessionIdle
    /\ PairOff
    /\ HeaderOff
    /\ OAuthOff
    /\ CodecOff
    /\ dPc = "run"
    /\ dWire \in Streams(DecodeFrames, MaxDecodeFrames)
    /\ dBuf = <<>>
    /\ dDelivered = <<>>
    /\ dFrames = <<>>
    /\ dThrew = 0
    /\ dChunks = 0

\* a "data" event with the first k undelivered bytes as chunk (lines 225-236)
DecodeData ==
    /\ dPc = "run"
    /\ \E k \in 1..Len(dWire) :
          LET chunk == SubSeq(dWire, 1, k)
              step == dataStep(dBuf, chunk)
          IN  /\ dWire' = SubSeq(dWire, k + 1, Len(dWire))
              /\ dDelivered' = dDelivered \o chunk
              /\ dBuf' = step.buf
              /\ dFrames' = dFrames \o step.frames
              /\ dThrew' = dThrew + (IF step.threw THEN 1 ELSE 0)
              /\ dChunks' = dChunks + 1
    /\ UNCHANGED dPc
    /\ UNCHANGED <<sessVars, codecVars, pairVars, headerVars, oauthVars>>

DecodeNext == DecodeData

SpecDecode == DecodeInit /\ [][DecodeNext]_vars

\* C8: decoding is resumable.  However a stream of complete FIN=1 frames is
\* split into data chunks, the frames produced over all data events so far are
\* the frames parseWsFrames produces from the delivered bytes at once, and the
\* receive buffer holds exactly the remainder of that one parse.
C8_Resumable ==
    (dPc = "run" /\ ~parseWsFrames(dDelivered).threw) =>
        /\ dThrew = 0
        /\ dFrames = parseWsFrames(dDelivered).frames
        /\ dBuf = parseWsFrames(dDelivered).remaining

\* a two-frame stream (a 16-bit length, then a masked frame) delivered whole
\* in four chunks, so that at least two chunks ended inside a frame
C8_Witness ==
    /\ dPc = "run"
    /\ dWire = <<>>
    /\ dChunks = 4
    /\ dDelivered = FrameBinary16 \o FrameTextMasked
    /\ dBuf = <<>>
    /\ dFrames = << [opcode |-> 2, payload |-> <<255>>], [opcode |-> 1, payload |-> <<104>>] >>

\* C9: for every opcode and every payload of a boundary length (0, 125, 126,
\* 65535, 65536), parseWsFrames of the bytes written by sendWsFrame yields
\* exactly one frame with the same opcode and payload, and an empty remainder.
C9_RoundTrip ==
    (cPc = "decoded" /\ Len(cPayload) \in BoundaryLengths) =>
        /\ cParsed.threw = FALSE
        /\ cParsed.frames = <<[opcode |-> cOpcode, payload |-> cPayload]>>
        /\ cParsed.remaining = <<>>

C9_Witness ==
    /\ cPc = "decoded"
    /\ Len(cPayload) = 126
    /\ cOpcode = 2
    /\ Len(cParsed.frames) = 1
    /\ cParsed.frames[1].payload = cPayload

\* C10: every frame written by sendWsFrame has FIN=1 and the requested opcode
\* in byte 0, mask bit 0, a 2-byte header with the length in byte 1 below 126
\* bytes, a 4-byte header (126, 16-bit big-endian length) below 65536 bytes and
\* a 10-byte header (127, 64-bit big-endian length) otherwise, followed by the
\* whole payload: one message is one frame.
C10_HeaderFormat ==
    (cPc \in {"encoded", "decoded"}) =>
        LET n == Len(cPayload)
            h == IF n < 126 THEN 2 ELSE IF n < 65536 THEN 4 ELSE 10
        IN  /\ Len(cWire) = h + n
            /\ cWire[1] = 128 + cOpcode
            /\ cWire[2] < 128
            /\ SubSeq(cWire, h + 1, h + n) = cPayload
            /\ (n < 126 => cWire[2] = n)
            /\ (n >= 126 /\ n < 65536 =>
                   /\ cWire[2] = 126
                   /\ cWire[3] * 256 + cWire[4] = n)
            /\ (n >= 65536 =>
                   /\ cWire[2] = 127
                   /\ \A k \in 3..6 : cWire[k] = 0
                   /\ ((cWire[7] * 256 + cWire[8]) * 256 + cWire[9]) * 256 + cWire[10] = n)

C10_Witness ==
    /\ cPc = "encoded"
    /\ Len(cPayload) = 65536
    /\ Len(cWire) = 65546
    /\ cWire[2] = 127

(***************************************************************************)
(* Parse harness: parseWsFrames applied to one frame as a client writes it *)
(***************************************************************************)
\* payloads of 0..MaxMaskedLen bytes are masked (the key has 4 bytes)
MaxMaskedLen == 5

\* the mask keys tried; <<>> is an unmasked frame
MaskKeys == {<<>>, MaskKey, <<17, 34, 51, 68>>, <<255, 0, 128, 127>>}

\* a 64-bit length field holding 2^64 - 1, 2^53 and 2^32: the first two lie
\* beyond Number.MAX_SAFE_INTEGER = 2^53 - 1
HugeLengthFields ==
    { <<255, 255, 255, 255, 255, 255, 255, 255>>,
      <<0, 32, 0, 0, 0, 0, 0, 0>>,
      <<0, 0, 0, 1, 0, 0, 0, 0>> }

\* a frame header announcing a 64-bit length, followed by `tail`
hugeFrame(opcode, masked, lengthField, tail) ==
    <<128 + opcode, (IF masked THEN 128 ELSE 0) + 127>> \o lengthField \o tail

\* the byte strings handed to parseWsFrames: whole frames of every length
\* format, masked and unmasked, and frames with a huge 64-bit length
ParseInputs ==
    { clientFrame(TRUE, opcode, fmt, key, PayloadOf(len, 1)) :
          opcode \in {1, 2}, fmt \in {7, 16, 64}, key \in MaskKeys, len \in 0..MaxMaskedLen }
    \cup {FrameHiMasked}
    \cup { hugeFrame(2, masked, field, tail) :
              masked \in BOOLEAN, field \in HugeLengthFields,
              tail \in {<<>>, <<1, 2, 3, 4, 5>>} }

ParseInit ==
    /\ SessionIdle
    /\ PairOff
    /\ HeaderOff
    /\ OAuthOff
    /\ DecodeOff
    /\ cPc = "received"
    /\ cOpcode = 0
    /\ cPayload = <<>>
    /\ cWire \in ParseInputs
    /\ cParsed = [threw |-> FALSE, frames |-> <<>>, remaining |-> <<>>]

\* parseWsFrames applied to the bytes received (line 229)
ParseReceived ==
    /\ cPc = "received"
    /\ cParsed' = parseWsFrames(cWire)
    /\ cPc' = "parsed"
    /\ UNCHANGED <<cOpcode, cPayload, cWire>>
    /\ UNCHANGED <<sessVars, decodeVars, pairVars, headerVars, oauthVars>>

ParseNext == ParseReceived

SpecParse == ParseInit /\ [][ParseNext]_vars

\* the shape of the frame in cWire, read off its bytes
WireMasked == cWire[2] >= 128
WireLen7 == cWire[2] % 128
WireHeaderLen == IF WireLen7 = 126 THEN 4 ELSE IF WireLen7 = 127 THEN 10 ELSE 2
\* the length field of a 64-bit frame holds a value above 2^53 - 1
WireBeyondSafe ==
    /\ WireLen7 = 127
    /\ (cWire[3] # 0 \/ cWire[4] >= 32)
\* where the payload starts, and how many bytes follow the header and key
WireDataAt == IF WireMasked THEN WireHeaderLen + 4 ELSE WireHeaderLen
WireRest == Len(cWire) - WireDataAt
\* the frame is whole: the length it announces is the number of bytes present
WireWhole ==
    IF WireLen7 = 126 THEN cWire[3] * 256 + cWire[4] = WireRest
    ELSE IF WireLen7 = 127
         THEN /\ \A k \in 3..7 : cWire[k] = 0
              /\ (cWire[8] * 256 + cWire[9]) * 256 + cWire[10] = WireRest
         ELSE WireLen7 = WireRest

\* C11: the payload decoded from a masked frame is, byte by byte, the wire
\* byte XOR key[i mod 4], the key being the 4 bytes after the 7, 16 or 64 bit
\* length field; the masked frame 81 82 01 02 03 04 69 6B decodes to the text
\* frame "hi"; the payload of an unmasked frame is the wire bytes unchanged.
C11_Unmask ==
    (cPc = "parsed" /\ WireWhole) =>
        /\ cParsed.threw = FALSE
        /\ Len(cParsed.frames) = 1
        /\ cParsed.remaining = <<>>
        /\ Len(cParsed.frames[1].payload) = WireRest
        /\ \A i \in 0..(WireRest - 1) :
              cParsed.frames[1].payload[i + 1] =
                  IF WireMasked
                  THEN BitXor(cWire[WireDataAt + i + 1], cWire[WireHeaderLen + (i % 4) + 1])
                  ELSE cWire[WireDataAt + i + 1]
        /\ (cWire = FrameHiMasked =>
               cParsed.frames = <<[opcode |-> 1, payload |-> <<104, 105>>]>>)

\* a masked frame with a 16-bit length whose 5-byte payload is longer than
\* the key, decoded to the payload the client masked
C11_Witness ==
    /\ cPc = "parsed"
    /\ Len(cWire) = 13
    /\ SubSeq(cWire, 1, 8) = <<130, 254, 0, 5, 17, 34, 51, 68>>
    /\ cParsed.frames = <<[opcode |-> 2, payload |-> PayloadOf(5, 1)]>>

\* C12: a frame whose 64-bit length field holds a value outside the
\* safe-integer range makes parseWsFrames fail (the decode error that the data
\* handler answers with the structured error message and closeBoth).
C12_LengthRejected ==
    (cPc = "parsed" /\ WireBeyondSafe) => cParsed.threw

(***************************************************************************)
(* Two sessions: server.on("upgrade") run for two sockets of one process.  *)
(* Everything a session touches is declared inside the handler (lines 193, *)
(* 210, 212), so each run has its own upstream, buf and closeBoth.         *)
(***************************************************************************)
Sessions == {1, 2}

\* events of one session, its upgrade included
MaxPairSteps == 4

\* seeded fault: one buffer declared at module level
bufferOf_shared(i) == 1

\* line 210: `let buf` is declared in the handler, one buffer per session
bufferOf(i) == i

\* what a data event may deliver: the first byte of a frame, a text frame, a
\* FIN=0 frame
PairChunks == {<<129>>, FrameText, FrameFragment}

PairSession0 ==
    [ phase |-> "idle", sock |-> "open", up |-> "none", clientOut |-> <<>>,
      upSent |-> <<>>, hist |-> HistInit, steps |-> 0 ]

PairInit ==
    /\ SessionIdle
    /\ CodecOff
    /\ DecodeOff
    /\ HeaderOff
    /\ OAuthOff
    /\ pair = [i \in Sessions |-> PairSession0]
    /\ pairBuf = [i \in Sessions |-> <<>>]

\* session i's handler ran and left its closure as s
PairCommit(i, s) == pair' = [pair EXCEPT ![i] = [s EXCEPT !.steps = @ + 1]]

\* lines 137-210 for an accepted upgrade with a complete configuration
PairUpgrade(i) ==
    /\ pair[i].phase = "idle"
    /\ PairCommit(i, [pair[i] EXCEPT !.phase = "bridged", !.up = "CONNECTING",
                                     !.hist.upCreated = @ + 1])
    /\ pairBuf' = [pairBuf EXCEPT ![bufferOf(i)] = <<>>]
    /\ UNCHANGED <<sessVars, codecVars, decodeVars, headerVars, oauthVars>>

\* lines 225-259
PairData(i) ==
    /\ pair[i].phase = "bridged"
    /\ pair[i].steps < MaxPairSteps
    /\ pair[i].sock \in {"open", "ended"}
    /\ \E chunk \in PairChunks :
          LET step == dataStep(pairBuf[bufferOf(i)], chunk)
          IN  /\ pairBuf' = [pairBuf EXCEPT ![bufferOf(i)] = step.buf]
              /\ PairCommit(i, onData(pair[i], step))
    /\ UNCHANGED <<sessVars, codecVars, decodeVars, headerVars, oauthVars>>

\* lines 261-262: the socket's "close" event
PairSocketClose(i) ==
    /\ pair[i].phase = "bridged"
    /\ pair[i].steps < MaxPairSteps
    /\ pair[i].sock \in {"open", "ended", "destroyed"}
    /\ PairCommit(i, closeBoth([pair[i] EXCEPT !.sock = "closed"]))
    /\ UNCHANGED <<pairBuf, sessVars, codecVars, decodeVars, headerVars, oauthVars>>

\* lines 261-262: the socket's "error" event
PairSocketError(i) ==
    /\ pair[i].phase = "bridged"
    /\ pair[i].steps < MaxPairSteps
    /\ pair[i].sock \in {"open", "ended", "errored"}
    /\ PairCommit(i, closeBoth([pair[i] EXCEPT !.sock = "destroyed"]))
    /\ UNCHANGED <<pairBuf, sessVars, codecVars, decodeVars, headerVars, oauthVars>>

\* lines 264-266
PairUpstreamOpen(i) ==
    /\ pair[i].phase = "bridged"
    /\ pair[i].steps < MaxPairSteps
    /\ pair[i].up = "CONNECTING"
    /\ PairCommit(i, onopen([pair[i] EXCEPT !.up = "OPEN"]))
    /\ UNCHANGED <<pairBuf, sessVars, codecVars, decodeVars, headerVars, oauthVars>>

\* lines 268-278 for a string or an ArrayBuffer
PairUpstreamMessage(i) ==
    /\ pair[i].phase = "bridged"
    /\ pair[i].steps < MaxPairSteps
    /\ pair[i].up = "OPEN"
    /\ \E m \in {x \in UpMessages : ~deferred(x)} :
          LET n == pair[i].hist.upMsgs + 1
          IN  PairCommit(i, onmessage([pair[i] EXCEPT !.hist.upMsgs = n,
                                                      !.hist.upIn = Append(@, m)], n, m))
    /\ UNCHANGED <<pairBuf, sessVars, codecVars, decodeVars, headerVars, oauthVars>>

\* lines 289-292
PairUpstreamError(i) ==
    /\ pair[i].phase = "bridged"
    /\ pair[i].steps < MaxPairSteps
    /\ pair[i].up \in {"CONNECTING", "OPEN", "CLOSING"}
    /\ PairCommit(i, onerror([pair[i] EXCEPT !.hist.upError = TRUE]))
    /\ UNCHANGED <<pairBuf, sessVars, codecVars, decodeVars, headerVars, oauthVars>>

\* lines 294-296
PairUpstreamClose(i) ==
    /\ pair[i].phase = "bridged"
    /\ pair[i].steps < MaxPairSteps
    /\ pair[i].up \in {"CONNECTING", "OPEN", "CLOSING"}
    /\ PairCommit(i, closeBoth([pair[i] EXCEPT !.up = "CLOSED"]))
    /\ UNCHANGED <<pairBuf, sessVars, codecVars, decodeVars, headerVars, oauthVars>>

PairNext ==
    \E i \in Sessions :
        \/ PairUpgrade(i)
        \/ PairData(i)
        \/ PairSocketClose(i)
        \/ PairSocketError(i)
        \/ PairUpstreamOpen(i)
        \/ PairUpstreamMessage(i)
        \/ PairUpstreamError(i)
        \/ PairUpstreamClose(i)

SpecPair == PairInit /\ [][PairNext]_vars

\* C24: with two sessions, a step taken by one session (an upgrade, client
\* bytes, a decode failure, an upstream open, message, error or close, a
\* socket close or error) leaves the other session's receive buffer, both its
\* transports, its lifecycle position and everything written to its client
\* and sent to its upstream unchanged.
C24_Independent ==
    [][ \A i \in Sessions :
          (\E j \in Sessions \ {i} : pair'[j].steps # pair[j].steps) =>
              (pair'[i] = pair[i] /\ pairBuf'[i] = pairBuf[i]) ]_vars

\* session 1 is Active with the first byte of a frame in its buffer while
\* session 2 has been torn down by a decode failure
C24_Witness ==
    /\ pair[1].sock = "open"
    /\ pair[1].up = "OPEN"
    /\ pairBuf[1] = <<129>>
    /\ pair[1].clientOut = <<[by |-> By("ready"), bytes |-> ReadyFrame]>>
    /\ pair[2].hist.threw = 1
    /\ pair[2].sock = "ended"
    /\ pair[2].up = "CLOSING"
    /\ pairBuf[2] = FrameFragment

(***************************************************************************)
(* Header harness: the headers object of new WebSocket(...), lines 169-200 *)
(* A header value is a sequence of string pieces; a JSON value is a record *)
(* [t, v, entries]: its type, its text when it is a leaf, and its own      *)
(* enumerable entries (Object.entries) when it is an object or an array.   *)
(***************************************************************************)
NoEntries == [n \in {} |-> <<>>]

JsonLeaves ==
    { [t |-> "string", v |-> <<"v1">>, entries |-> NoEntries],
      [t |-> "number", v |-> <<"2">>, entries |-> NoEntries],
      [t |-> "null", v |-> <<>>, entries |-> NoEntries] }

\* the member names a configured map is built from
HeaderNames == {"x-a", "x-b", "authorization", "Authorization"}

JsonObjects ==
    { [t |-> "object", v |-> <<>>, entries |-> f] :
          f \in UNION {[S -> JsonLeaves] : S \in SUBSET HeaderNames} }

\* ["v1", 2]: Object.entries names the elements "0" and "1"
JsonArrays ==
    { [t |-> "array", v |-> <<>>,
       entries |-> [n \in {"0", "1"} |->
                       IF n = "0" THEN [t |-> "string", v |-> <<"v1">>, entries |-> NoEntries]
                       ELSE [t |-> "number", v |-> <<"2">>, entries |-> NoEntries]]] }

JsonNull == [t |-> "null", v |-> <<>>, entries |-> NoEntries]

\* XAI_REALTIME_HEADERS_JSON: unset (or empty), a text JSON.parse rejects, or
\* the text of a JSON value
ExtraDocs ==
    { [kind |-> "unset", value |-> JsonNull], [kind |-> "invalid", value |-> JsonNull] }
    \cup { [kind |-> "json", value |-> x] : x \in JsonLeaves \cup JsonObjects \cup JsonArrays }

\* lines 25-31 and 172: extraHeadersRaw ? safeJsonParse(extraHeadersRaw) : null
extraHeadersParsed(doc) == IF doc.kind = "json" THEN doc.value ELSE JsonNull

\* lines 186-191: the string-valued entries of a parsed object
headersOf(parsed) ==
    IF parsed.t \in {"object", "array"}
    THEN [n \in {k \in DOMAIN parsed.entries : parsed.entries[k].t = "string"} |->
             parsed.entries[n].v]
    ELSE NoEntries

\* { a, ...b }: the properties of b are copied over those of a
spread(a, b) ==
    [n \in DOMAIN a \cup DOMAIN b |-> IF n \in DOMAIN b THEN b[n] ELSE a[n]]

\* lines 196-199: { authorization: `Bearer ${xaiKey}`, ...headers }
upstreamHeaders(key, doc) ==
    spread([n \in {"authorization"} |-> <<"Bearer ", key>>],
           headersOf(extraHeadersParsed(doc)))

HeaderInit ==
    /\ SessionIdle
    /\ PairOff
    /\ CodecOff
    /\ DecodeOff
    /\ OAuthOff
    /\ hPc = "input"
    /\ hKey \in {"k", " k "}
    /\ hExtra \in ExtraDocs
    /\ hOptions = <<>>

\* lines 186-200: the options new WebSocket is called with
HeaderBuild ==
    /\ hPc = "input"
    /\ hOptions' = upstreamHeaders(hKey, hExtra)
    /\ hPc' = "built"
    /\ UNCHANGED <<hKey, hExtra>>
    /\ UNCHANGED <<sessVars, codecVars, decodeVars, pairVars, oauthVars>>

HeaderNext == HeaderBuild

SpecHeaders == HeaderInit /\ [][HeaderNext]_vars

\* the names of the string-valued entries of the configured map
StringNames ==
    IF hExtra.kind = "json" /\ hExtra.value.t \in {"object", "array"}
    THEN {n \in DOMAIN hExtra.value.entries : hExtra.value.entries[n].t = "string"}
    ELSE {}

\* C25: the upstream is opened with authorization: Bearer <credential> and,
\* besides it, with exactly the string-valued entries of the configured map;
\* entries that are not strings, and a map that does not parse, add nothing.
C25_Headers ==
    hPc = "built" =>
        /\ DOMAIN hOptions = {"authorization"} \cup StringNames
        /\ hOptions["authorization"] = <<"Bearer ", hKey>>
        /\ \A n \in StringNames \ {"authorization"} :
              hOptions[n] = hExtra.value.entries[n].v

(***************************************************************************)
(* GitHub OAuth routes (src/unnamed/part_002): the authorize route stores  *)
(* a state cookie, the callback route checks it and exchanges the code.    *)
(* One browser, whose cookies are oJar, sends the requests; a response's   *)
(* cookie changes are applied to oJar.                                     *)
(***************************************************************************)
\* authorize requests in one run
MaxLogins == 2
\* callback requests in one run
MaxCallbacks == 2

\* !x of a setting read from process.env: unset or the empty string
missing(setting) == ~setting.present \/ setting.value = <<>>

\* url.searchParams.get(name) || "" and jar.get(name)?.value || ""
orEmpty(p) == IF p.present /\ p.value # <<>> THEN p.value ELSE <<>>

\* crypto.randomBytes(16).toString("hex") of the n-th authorize request: a
\* fresh value each time
randomState(n) == <<n>>

\* sealCookieValue(token) with its random iv: the token is not stored as is
sealCookieValue(token, iv) == <<iv>> \o [k \in 1..Len(token) |-> (token[k] + iv) % 256]

\* process.env of the deployments considered
OAuthEnvs ==
    { [clientId |-> Str(<<105>>), clientSecret |-> Str(<<115>>), sessionSecret |-> Str(<<112>>)],
      [clientId |-> Absent,       clientSecret |-> Str(<<115>>), sessionSecret |-> Str(<<112>>)],
      [clientId |-> Str(<<105>>), clientSecret |-> Str(<<>>),    sessionSecret |-> Str(<<112>>)],
      [clientId |-> Str(<<105>>), clientSecret |-> Str(<<115>>), sessionSecret |-> Absent] }

\* the code parameter of a callback request
CodeParams == {Absent, Str(<<>>), Str(<<99>>)}
\* the state parameter of a callback request: missing, empty, a value the
\* authorize route issued, or a value it never issued (<<0>>)
StateParams == {Absent, Str(<<>>)} \cup {Str(<<n>>) : n \in 0..MaxLogins}
\* what the token endpoint answers: a failure (not ok, or a body that is not
\* JSON), an error document, a document without access_token, a token
TokenReplies == {"failed", "error", "noToken", "token"}
AccessToken == <<116>>

\* seeded fault: the stored state is left in place
deleteState_keep(jar) == jar

\* line 83: jar.delete("pat_github_oauth_state")
deleteState(jar) == [jar EXCEPT !.state = Absent]

\* line 85: !expected || expected !== state
stateRefused(expected, state) == expected = <<>> \/ expected # state

\* lines 57-128: the callback route for one request of a browser whose
\* cookies are jar; `reply` is the token endpoint's answer, `iv` the sealing iv.
\* The result is the status, the browser's cookies after the response, and
\* the token exchanges made (none or one).
callback(envv, jar, codeParam, stateParam, reply, iv) ==
    LET code == orEmpty(codeParam)
        state == orEmpty(stateParam)
        expected == orEmpty(jar.state)
        cleared == deleteState(jar)
    IN  IF missing(envv.clientId) \/ missing(envv.clientSecret)
        THEN [status |-> 500, jar |-> jar, exch |-> <<>>]
        ELSE IF missing(envv.sessionSecret)
        THEN [status |-> 500, jar |-> jar, exch |-> <<>>]
        ELSE IF code = <<>> \/ state = <<>>
        THEN [status |-> 400, jar |-> jar, exch |-> <<>>]
        ELSE IF stateRefused(expected, state)
        THEN [status |-> 400, jar |-> cleared, exch |-> <<>>]
        ELSE LET made == <<[expected |-> expected, state |-> state, code |-> code]>>
             IN  IF reply = "failed"
                 THEN [status |-> 502, jar |-> cleared, exch |-> made]
                 ELSE IF reply = "error"
                 THEN [status |-> 400, jar |-> cleared, exch |-> made]
                 ELSE IF reply = "noToken"
                 THEN [status |-> 502, jar |-> cleared, exch |-> made]
                 ELSE [status |-> 302,
                       jar |-> [cleared EXCEPT !.token = Str(sealCookieValue(AccessToken, iv))],
                       exch |-> made]

OAuthInit ==
    /\ SessionIdle
    /\ PairOff
    /\ CodecOff
    /\ DecodeOff
    /\ HeaderOff
    /\ oPc = "run"
    /\ oEnv \in OAuthEnvs
    /\ oJar = [state |-> Absent, token |-> Absent]
    /\ oIssued = 0
    /\ oCalls = 0
    /\ oExch = <<>>
    /\ oLast = [route |-> "none"]

\* lines 8-38: the authorize route
OAuthAuthorize ==
    /\ oPc = "run"
    /\ oIssued < MaxLogins
    /\ IF missing(oEnv.clientId)
       THEN /\ oLast' = [route |-> "authorize", status |-> 500]
            /\ UNCHANGED <<oJar, oIssued>>
       ELSE /\ oIssued' = oIssued + 1
            /\ oJar' = [oJar EXCEPT !.state = Str(randomState(oIssued + 1))]
            /\ oLast' = [route |-> "authorize", status |-> 302]
    /\ UNCHANGED <<oPc, oEnv, oCalls, oExch>>
    /\ UNCHANGED <<sessVars, codecVars, decodeVars, pairVars, headerVars>>

\* lines 57-128: the callback route
OAuthCallback ==
    /\ oPc = "run"
    /\ oCalls < MaxCallbacks
    /\ \E codeParam \in CodeParams, stateParam \in StateParams, reply \in TokenReplies :
          LET r == callback(oEnv, oJar, codeParam, stateParam, reply, oCalls + 1)
          IN  /\ oJar' = r.jar
              /\ oExch' = oExch \o r.exch
              /\ oLast' = [route |-> "callback", status |-> r.status,
                           code |-> codeParam, state |-> stateParam]
    /\ oCalls' = oCalls + 1
    /\ UNCHANGED <<oPc, oEnv, oIssued>>
    /\ UNCHANGED <<sessVars, codecVars, decodeVars, pairVars, headerVars>>

OAuthNext ==
    \/ OAuthAuthorize
    \/ OAuthCallback

SpecOAuth == OAuthInit /\ [][OAuthNext]_vars

\* the step is a callback request
IsCallback == oCalls' = oCalls + 1
\* the settings the callback route reads are all there
Configured ==
    ~missing(oEnv.clientId) /\ ~missing(oEnv.clientSecret) /\ ~missing(oEnv.sessionSecret)
\* the exchange request is made and the token cookie set only for a state
\* parameter that equals the non-empty stored state
ExchangeGuarded ==
    /\ [][ Len(oExch') > Len(oExch) =>
             /\ IsCallback
             /\ Len(oExch') = Len(oExch) + 1
             /\ oJar.state.present
             /\ oJar.state.value # <<>>
             /\ oLast'.state = oJar.state
             /\ oLast'.code.value # <<>> ]_vars
    /\ [][ oJar'.token # oJar.token =>
             /\ Len(oExch') = Len(oExch) + 1
             /\ oLast'.status = 302
             /\ oJar.state.present
             /\ oLast'.state = oJar.state
             /\ oJar'.token.present
             /\ oJar'.token.value # AccessToken ]_vars
\* one stored state value allows at most one token exchange
OneExchangePerState ==
    [](\A i, j \in 1..Len(oExch) : oExch[i].expected = oExch[j].expected => i = j)

====
